---- MODULE Spec2Model ----
(***************************************************************************)
(* Model of the multilevel SDC + AMR controller, RNS/src/SDCAmr.cpp.       *)
(*                                                                         *)
(* The controller (class SDCAmr) keeps a table of per-level sweepers that  *)
(* mirrors the mesh hierarchy owned by the base class Amr.  The model      *)
(* follows SDCAmr::timeStep statement by statement (one action per loop    *)
(* iteration or library call), SDCAmr::regrid, SDCAmr::rebuild_mlsdc,     *)
(* rns_sdc_build_level and the constructor's check of the blocking         *)
(* factors (specification Spec); the transfer callbacks                    *)
(* mlsdc_amr_restrict and mlsdc_amr_interpolate are followed in a          *)
(* specification of their own (XferSpec).                                  *)
(*                                                                         *)
(* Field data are symbolic: a value records where it was produced (data    *)
(* the mesh provider made for a level and state field, a node written by   *)
(* a sweep), so that two fields are equal only when one is a copy of the   *)
(* other.  Ghost cells are not told apart from the rest of a field.        *)
(***************************************************************************)
EXTENDS Integers, Sequences, FiniteSets, TLC

\* ---------------------------------------------------------------- bounds
MaxLevel  == 2    \* largest max_level tried
MaxIters  == 2    \* largest mlsdc.max_iters tried
MaxStates == 2    \* largest number of state descriptors (dl.size()) tried
MaxSteps  == 2    \* coarse steps taken before the driver stops
MaxLayout == 1    \* the fine levels' grids are one of 0..MaxLayout
MaxFabs   == 2    \* largest number of patches of a fine MultiFab tried

\* ------------------------------------------------------ program constants
nnodes0 == 3
trat    == 2

VARIABLES
  max_level,     \* Amr::max_level (configuration)
  max_iters,     \* SDCAmr::max_iters (configuration, mlsdc.max_iters)
  ndesc,         \* number of state descriptors of a level, dl.size()
  blocking_factor, \* Amr::blocking_factor, per level 0..max_level (configuration)
  finest_level,  \* Amr::finest_level
  layout,        \* the grids (BoxArrays) of the levels above level 0, as one value
  Unew,          \* Unew[l][s]: amr_level[l].get_new_data(s)
  level_steps,   \* Amr::level_steps
  level_count,   \* Amr::level_count
  dt_level,      \* Amr::dt_level, the step size of each level 0..max_level
  tlevel,        \* tlevel[l][s]: the time levels (new, old) of
                 \* amr_level[l].get_state_data(s)
  time,          \* timeStep: the argument time
  sweepers,      \* SDCAmr::sweepers, a handle or NULL per level 0..max_level
  mg,            \* the orchestrator sdc_mg: nlevels and its registered sweepers
  nset,          \* the live sweeper objects: handle -> node set
  pc,            \* position of the running call
  call,          \* the running public operation
  i,             \* timeStep: regrid loop index
  lev_top,       \* timeStep: regrid loop bound
  lev,           \* timeStep: level index of the seeding / copy-back loops
  st,            \* timeStep: state index of the seeding / copy-back loops
  k,             \* timeStep: sweep index
  xfer,          \* the running call of a transfer operator (mlsdc_amr_restrict
                 \* or mlsdc_amr_interpolate): its arguments, its local
                 \* MultiFab UC, its position, and (history) the calls it made
  trace,         \* history: the calls made by the running operation, in order,
                 \* since it was entered or since its regrid loop ended
  stale,         \* history: the mesh shape changed since the last rebuild
  rebuilt,       \* history: a call of rebuild_mlsdc has completed
  entry          \* history: what a Step found at its entry (the mesh shape and
                 \* whether sweepers[0] was NULL, kept during the regrid loop; Unew,
                 \* kept until the nodes are seeded) and the counters after its
                 \* regrid loop

vars == <<max_level, max_iters, ndesc, blocking_factor, finest_level, layout,
          Unew, level_steps, level_count, dt_level, tlevel, time, sweepers,
          mg, nset, pc, call, i, lev_top, lev, st, k, xfer, trace, stale,
          rebuilt, entry>>

\* ---------------------------------------------------------------- values
Min(a, b) == IF a < b THEN a ELSE b

RECURSIVE Pow(_, _)
Pow(b, e) == IF e = 0 THEN 1 ELSE b * Pow(b, e - 1)

Levels  == 0..max_level

\* The blocking factors tried: one below and one at the least the
\* constructor accepts.
BlockingFactors == {2, 4}
Layouts == 0..MaxLayout

Val(tag, l, n) == [tag |-> tag, l |-> l, n |-> n]
NoVal          == Val("none", -1, -1)

\* The step sizes the levels' solver reports as stable: each level's is
\* half that of the level below it (a sub-cycled hierarchy), so that no two
\* levels share one.
StableDt == [l \in Levels |-> Pow(2, max_level - l)]

\* StateData::setTimeLevel(t, dt_old, dt_new) of a state that lives at
\* points in time: the new data are at t, the old data dt_old before.
setTimeLevel(t, dt_old, dt_new) == [new |-> t, old |-> t - dt_old]

\* The time levels of a state the controller has not set: those of a level
\* that does not exist or that the mesh provider made.
NoTime == [new |-> -1, old |-> -1]

\* A sweeper object: the level it was built for and its address among the
\* live objects of that level.
Handle(l, a) == [lev |-> l, addr |-> a]
NULL         == Handle(-1, -1)

Ev(e, a, b) == [ev |-> e, a |-> a, b |-> b]

\* No transfer operator is running.
NoXfer == [op |-> "none", pc |-> "none", kind |-> "none", debug |-> FALSE,
           nfab |-> 0, local |-> {}, todo |-> {}, UF |-> <<>>, UC |-> <<>>,
           UG |-> <<>>, log |-> <<>>]

NoEntry == [Unew |-> <<>>, steps |-> <<>>, count |-> <<>>, finest |-> -1,
            layout |-> -1, lazy |-> FALSE]

\* The part of the state the helpers below transform.
S == [finest_level |-> finest_level, layout |-> layout, Unew |-> Unew,
      level_count |-> level_count, dt_level |-> dt_level, tlevel |-> tlevel,
      sweepers |-> sweepers, mg |-> mg,
      nset |-> nset, trace |-> trace, stale |-> stale, rebuilt |-> rebuilt]

Install(s) ==
  /\ finest_level' = s.finest_level
  /\ layout'       = s.layout
  /\ Unew'         = s.Unew
  /\ level_count'  = s.level_count
  /\ dt_level'     = s.dt_level
  /\ tlevel'       = s.tlevel
  /\ sweepers'     = s.sweepers
  /\ mg'           = s.mg
  /\ nset'         = s.nset
  /\ trace'        = s.trace
  /\ stale'        = s.stale
  /\ rebuilt'        = s.rebuilt

Log(s, e) == [s EXCEPT !.trace = Append(@, e)]

\* ------------------------------------------------------- rebuild_mlsdc

\* Mutant: the node count grows with the level index, not with its power.
rns_sdc_build_level_Linear(l) == 1 + (nnodes0 - 1) * (trat * l)

\* rns_sdc_build_level: the node count of the sweeper built for level l.
rns_sdc_build_level(l) == 1 + (nnodes0 - 1) * Pow(trat, l)

\* Mutant: the destroy loop stops one level short (lev < max_level).
DestroySweepers_SkipsTop(s) ==
  LET freed == {s.sweepers[l] : l \in 0..(max_level - 1)} \ {NULL}
      live  == DOMAIN s.nset \ freed
  IN [s EXCEPT !.mg       = [nlevels |-> 0, sweepers |-> <<>>],
               !.nset     = [h \in live |-> s.nset[h]],
               !.sweepers = [l \in Levels |-> IF l < max_level THEN NULL ELSE @[l]]]

\* Mutant: the orchestrator is not reset before the levels are added again.
DestroySweepers_NoReset(s) ==
  LET freed == {s.sweepers[l] : l \in Levels} \ {NULL}
      live  == DOMAIN s.nset \ freed
  IN [s EXCEPT !.nset     = [h \in live |-> s.nset[h]],
               !.sweepers = [l \in Levels |-> NULL]]

\* sdc_mg_reset and the destroy loop over 0..max_level.
DestroySweepers(s) ==
  LET freed == {s.sweepers[l] : l \in Levels} \ {NULL}
      live  == DOMAIN s.nset \ freed
  IN [s EXCEPT !.mg       = [nlevels |-> 0, sweepers |-> <<>>],
               !.nset     = [h \in live |-> s.nset[h]],
               !.sweepers = [l \in Levels |-> NULL]]

\* The node set of a new sweeper of level l: its context is level l, its
\* encapsulation is built for the level's grids, its nodes are allocated.
\* (fresh is history: the object was made by the latest rebuild.)
NewNodeSet(s, l) ==
  [nnodes |-> rns_sdc_build_level(l),
   ctx    |-> l,
   encap  |-> s.layout,
   fresh  |-> TRUE,
   Q      |-> [m \in 0..(rns_sdc_build_level(l) - 1) |-> NoVal]]

\* The address a new sweeper of level l gets: the first one no live object has.
NewHandle(s, l) ==
  Handle(l, CHOOSE a \in 0..Cardinality(DOMAIN s.nset) :
              /\ Handle(l, a) \notin DOMAIN s.nset
              /\ \A b \in 0..(a - 1) : Handle(l, b) \in DOMAIN s.nset)

\* Mutant: the build loop starts at level 1.
BuildSweepers_SkipsBase(s) ==
  LET made == {NewHandle(s, l) : l \in 1..s.finest_level}
  IN [s EXCEPT
        !.sweepers = [l \in Levels |->
                        IF 1 <= l /\ l <= s.finest_level THEN NewHandle(s, l)
                        ELSE @[l]],
        !.mg   = [nlevels  |-> @.nlevels + s.finest_level,
                  sweepers |-> @.sweepers \o
                               [n \in 1..s.finest_level |-> NewHandle(s, n)]],
        !.nset = [h \in DOMAIN @ \cup made |->
                    IF h \in made THEN NewNodeSet(s, h.lev)
                    ELSE [@[h] EXCEPT !.fresh = FALSE]]]

\* The build loop over 0..finest_level, sdc_mg_add_level, setup, allocate.
BuildSweepers(s) ==
  LET built == {NewHandle(s, l) : l \in 0..s.finest_level}
  IN [s EXCEPT
        !.sweepers = [l \in Levels |->
                        IF l <= s.finest_level THEN NewHandle(s, l) ELSE @[l]],
        !.mg   = [nlevels  |-> @.nlevels + s.finest_level + 1,
                  sweepers |-> @.sweepers \o
                               [n \in 1..(s.finest_level + 1) |-> NewHandle(s, n - 1)]],
        !.nset = [h \in DOMAIN @ \cup built |->
                    IF h \in built THEN NewNodeSet(s, h.lev)
                    ELSE [@[h] EXCEPT !.fresh = FALSE]]]

rebuild_mlsdc(s) ==
  [Log(BuildSweepers(DestroySweepers(s)), Ev("rebuild", -1, -1))
     EXCEPT !.stale = FALSE, !.rebuilt = TRUE]

\* ------------------------------------------------------------- regrid

\* Amr::regrid(lbase, ...): the mesh provider keeps levels 0..lbase and
\* rebuilds the finer ones: the new finest level is nf and the grids of the
\* levels above 0 are nl.  A level above lbase whose grids changed, or that
\* is new, holds data made by the provider; levels above nf are gone.
AmrRegrid(s, lbase, nf, nl) ==
  LET same(l) == l <= lbase \/ (l <= s.finest_level /\ nl = s.layout)
      changed == nf # s.finest_level \/ nl # s.layout
  IN [Log(s, Ev("Amr::regrid", lbase, IF changed THEN 1 ELSE 0)) EXCEPT
        !.finest_level = nf,
        !.layout = nl,
        !.Unew   = [l \in Levels |-> [f \in 1..ndesc |->
                      IF l > nf THEN NoVal
                      ELSE IF same(l) THEN s.Unew[l][f]
                      ELSE Val("U", l, f)]],
        !.tlevel = [l \in Levels |-> [f \in 1..ndesc |->
                      IF l <= nf /\ same(l) THEN s.tlevel[l][f] ELSE NoTime]],
        !.stale  = @ \/ changed]

\* Mutant: regrid without the rebuild.
regrid_NoRebuild(s, lbase, nf, nl) == AmrRegrid(s, lbase, nf, nl)

\* Mutant: regrid rebuilds only when the mesh shape changed.
regrid_RebuildIfChanged(s, lbase, nf, nl) ==
  IF nf # s.finest_level \/ nl # s.layout
  THEN rebuild_mlsdc(AmrRegrid(s, lbase, nf, nl))
  ELSE AmrRegrid(s, lbase, nf, nl)

\* Mutant: regrid rebuilds before the mesh provider regrids.
regrid_RebuildFirst(s, lbase, nf, nl) ==
  AmrRegrid(rebuild_mlsdc(s), lbase, nf, nl)

\* SDCAmr::regrid
regrid(s, lbase, nf, nl) == rebuild_mlsdc(AmrRegrid(s, lbase, nf, nl))

\* The outcomes Amr::regrid(lbase) can have.
RegridOutcomes(lbase) ==
  {o \in [nf : lbase..max_level, nl : Layouts] :
     /\ o.nf = 0 => o.nl = 0
     /\ (o.nf > 0 /\ o.nf = lbase) => o.nl = layout}

\* ---------------------------------------------------------------- Init

\* The state of the constructor when it has read its configuration, built
\* the orchestrator and filled the sweeper table with NULL, and is about to
\* check the blocking factors.  The mesh variables hold the hierarchy the
\* mesh provider sets up for the run.
Init ==
  /\ max_level \in 0..MaxLevel
  /\ max_iters \in 0..MaxIters
  /\ ndesc \in 1..MaxStates
  /\ blocking_factor \in [Levels -> BlockingFactors]
  /\ finest_level \in 0..max_level
  /\ layout \in Layouts
  /\ finest_level = 0 => layout = 0
  /\ Unew = [l \in Levels |-> [f \in 1..ndesc |->
               IF l <= finest_level THEN Val("U", l, f) ELSE NoVal]]
  /\ level_steps = [l \in Levels |-> 0]
  /\ level_count = [l \in Levels |-> 0]
  /\ dt_level = StableDt
  /\ tlevel = [l \in Levels |-> [f \in 1..ndesc |-> NoTime]]
  /\ time = 0
  /\ sweepers = [l \in Levels |-> NULL]
  /\ mg = [nlevels |-> 0, sweepers |-> <<>>]
  /\ nset = <<>>
  /\ pc = "ctor"
  /\ call = "none"
  /\ i = 0
  /\ lev_top = 0
  /\ lev = 0
  /\ st = 0
  /\ k = 0
  /\ xfer = NoXfer
  /\ trace = <<>>
  /\ stale = TRUE
  /\ rebuilt = FALSE
  /\ entry = NoEntry

Config == <<max_level, max_iters, ndesc, blocking_factor>>

\* Mutant: the check of the blocking factors stops one level short.
BadBlockingFactor_SkipsTop ==
  max_level > 0 /\ \E l \in 0..(max_level - 1) : blocking_factor[l] < 4

\* The constructor's check: with more than one level allowed, some level
\* 0..max_level has a blocking factor below 4.
BadBlockingFactor ==
  max_level > 0 /\ \E l \in Levels : blocking_factor[l] < 4

\* The end of the constructor: BoxLib::Abort ends the process, otherwise the
\* controller is handed to the driver.
Construct ==
  /\ pc = "ctor"
  /\ pc' = IF BadBlockingFactor THEN "aborted" ELSE "Idle"
  /\ UNCHANGED <<Config, xfer, rebuilt, dt_level, time, tlevel, finest_level,
                 layout, Unew, level_steps, level_count, sweepers, mg, nset,
                 call, i, lev_top, lev, st, k, trace, stale, entry>>

\* ------------------------------------------------------------ timeStep

\* The time the driver has reached, which it passes to timeStep: it adds
\* dt_level[0] after every coarse step.
Clock == level_steps[0] * dt_level[0]

\* Mutant: a Step does not rebuild at entry.
StepEntry_NoLazyRebuild ==
  /\ pc = "Idle"
  /\ level_steps[0] < MaxSteps
  /\ Install([S EXCEPT !.trace = <<>>])
  /\ lev_top' = Min(finest_level, max_level - 1)
  /\ time' = Clock
  /\ i' = 0
  /\ pc' = "regrid"
  /\ call' = "timeStep"
  /\ entry' = [NoEntry EXCEPT !.Unew = Unew, !.finest = finest_level,
                              !.layout = layout, !.lazy = (sweepers[0] = NULL)]
  /\ UNCHANGED <<Config, xfer, level_steps, lev, st, k>>

\* timeStep, entry: the lazy rebuild and the initial loop bound.
StepEntry ==
  /\ pc = "Idle"
  /\ level_steps[0] < MaxSteps
  /\ LET s0 == [S EXCEPT !.trace = <<>>]
         s1 == IF sweepers[0] = NULL THEN rebuild_mlsdc(s0) ELSE s0
     IN /\ Install(s1)
        /\ lev_top' = Min(finest_level, max_level - 1)
  /\ time' = Clock
  /\ i' = 0
  /\ pc' = "regrid"
  /\ call' = "timeStep"
  /\ entry' = [NoEntry EXCEPT !.Unew = Unew, !.finest = finest_level,
                              !.layout = layout, !.lazy = (sweepers[0] = NULL)]
  /\ UNCHANGED <<Config, xfer, level_steps, lev, st, k>>

\* amr_level[0].computeNewDt(finest_level, ..., dt_level, ...): the levels
\* 0..finest_level get the step sizes the solver reports as stable.
computeNewDt(s) ==
  [Log(s, Ev("computeNewDt", s.finest_level, -1)) EXCEPT
     !.dt_level = [l \in Levels |->
                     IF l <= s.finest_level THEN StableDt[l] ELSE @[l]]]

\* Mutant: the counters are reset from level 0 up.
RegridIter_ResetFromBase(s, ok, o) ==
  LET q  == Log(s, Ev("okToRegrid", i, IF ok THEN 1 ELSE 0))
      r  == computeNewDt(regrid(q, i, o.nf, o.nl))
      r2 == [r EXCEPT !.level_count =
                        [l \in Levels |-> IF l <= r.finest_level
                                          THEN 0 ELSE @[l]]]
  IN IF ok THEN r2 ELSE q

\* One iteration of the regrid loop, level i.
RegridIter(s, ok, o) ==
  LET q  == Log(s, Ev("okToRegrid", i, IF ok THEN 1 ELSE 0))
      r  == computeNewDt(regrid(q, i, o.nf, o.nl))
      r2 == [r EXCEPT !.level_count =
                        [l \in Levels |-> IF l >= i /\ l <= r.finest_level
                                          THEN 0 ELSE @[l]]]
  IN IF ok THEN r2 ELSE q

\* Mutant: the loop bound is never re-evaluated.
NewLevTop_Never(old_finest, new_finest) == lev_top

\* The loop bound after an iteration that found old_finest and left
\* new_finest: it is re-evaluated only when the finest level went down.
NewLevTop(old_finest, new_finest) ==
  IF old_finest > new_finest THEN Min(new_finest, max_level - 1) ELSE lev_top

RegridLoop ==
  /\ pc = "regrid"
  /\ i <= lev_top
  /\ \E ok \in BOOLEAN : \E o \in RegridOutcomes(i) :
       LET s1 == RegridIter(S, ok, o)
       IN /\ Install(s1)
          /\ lev_top' = NewLevTop(finest_level, s1.finest_level)
  /\ i' = i + 1
  /\ UNCHANGED <<Config, xfer, time, level_steps, pc, call, lev, st, k,
                 entry>>

RegridLoopExit ==
  /\ pc = "regrid"
  /\ i > lev_top
  /\ pc' = "seed"
  /\ lev' = 0
  /\ st' = 1
  /\ entry' = [NoEntry EXCEPT !.Unew = entry.Unew, !.finest = entry.finest,
                              !.steps = level_steps, !.count = level_count]
  /\ trace' = <<>>
  /\ UNCHANGED <<Config, xfer, rebuilt, dt_level, time, tlevel, finest_level,
                 layout, Unew, level_steps, level_count, sweepers, mg, nset,
                 call, i, lev_top, k, stale>>

\* The sweeper object the orchestrator holds for level l.
MgSweeper(l) == mg.sweepers[l + 1]
Registered == {mg.sweepers[n] : n \in 1..Len(mg.sweepers)}
HasSweeper(l) == l + 1 <= Len(mg.sweepers) /\ MgSweeper(l) \in DOMAIN nset

\* The next (level, state) of a loop nest over levels 0..finest_level and states.
NextLevSt == IF st < ndesc THEN <<lev, st + 1>> ELSE <<lev + 1, 1>>

\* Seeding: the body of the loop nest for (lev, st): after the boundary fill
\* of Unew, Q[0] := Unew.
SeedQ0(q) == [q EXCEPT ![0] = Unew[lev][st]]

Seed ==
  /\ pc = "seed"
  /\ lev <= finest_level
  /\ HasSweeper(lev)
  /\ nset' = [nset EXCEPT ![MgSweeper(lev)].Q = SeedQ0(@)]
  /\ trace' = Append(trace, Ev("seed", lev, st))
  /\ lev' = NextLevSt[1]
  /\ st' = NextLevSt[2]
  /\ UNCHANGED <<Config, xfer, rebuilt, dt_level, time, tlevel, finest_level,
                 layout, Unew, level_steps, level_count, sweepers, mg, pc,
                 call, i, lev_top, k, stale, entry>>

\* Mutant: the sweeps start without the spread.
SeedExit_NoSpread ==
  /\ pc = "seed"
  /\ lev > finest_level
  /\ pc' = "sweep"
  /\ k' = 0
  /\ UNCHANGED <<Config, xfer, rebuilt, dt_level, time, tlevel, finest_level,
                 layout, Unew, level_steps, level_count, sweepers, mg, nset,
                 call, i, lev_top, lev, st, trace, stale, entry>>

SeedExit ==
  /\ pc = "seed"
  /\ lev > finest_level
  /\ pc' = "settimes"
  /\ UNCHANGED <<Config, xfer, rebuilt, dt_level, time, tlevel, finest_level,
                 layout, Unew, level_steps, level_count, sweepers, mg, nset,
                 call, i, lev_top, lev, st, k, trace, stale, entry>>

\* Mutant: each level's time levels are set from its own step size.
DtStep_OwnLevel(l) == dt_level[l]

\* The step size the time levels of level l are set from.
DtStep(l) == dt_level[0]

\* The loop that sets the time levels of every level and state.
SetTimes ==
  /\ pc = "settimes"
  /\ tlevel' = [l \in Levels |-> [f \in 1..ndesc |->
                  IF l <= finest_level
                  THEN setTimeLevel(time + DtStep(l), DtStep(l), DtStep(l))
                  ELSE tlevel[l][f]]]
  /\ trace' = Append(trace, Ev("setTimeLevel", -1, -1))
  /\ pc' = "spread"
  /\ entry' = [NoEntry EXCEPT !.steps = entry.steps, !.count = entry.count]
  /\ UNCHANGED <<Config, xfer, rebuilt, dt_level, time, finest_level, layout,
                 Unew, level_steps, level_count, sweepers, mg, nset, call, i,
                 lev_top, lev, st, k, stale>>

\* sdc_mg_spread: every node of every registered level takes the level's Q[0].
SpreadQ(q) == [m \in DOMAIN q |-> q[0]]

Spread ==
  /\ pc = "spread"
  /\ nset' = [h \in DOMAIN nset |->
                IF h \in Registered THEN [nset[h] EXCEPT !.Q = SpreadQ(@)]
                ELSE nset[h]]
  /\ trace' = Append(trace, Ev("spread", -1, -1))
  /\ k' = 0
  /\ pc' = "sweep"
  /\ UNCHANGED <<Config, xfer, rebuilt, dt_level, time, tlevel, finest_level,
                 layout, Unew, level_steps, level_count, sweepers, mg, call,
                 i, lev_top, lev, st, stale, entry>>

\* sdc_mg_sweep: every node after the first of every level is rewritten.
SweepQ(l, q) == [m \in DOMAIN q |-> IF m = 0 THEN q[0] ELSE Val("S", l, m)]

\* The flag passed to sweep number kk.
SweepFlag(kk) == IF kk = max_iters - 1 THEN 1 ELSE 0

\* Mutant: the sweep loop runs once more (k <= max_iters).
SweepCond_OneMore == k <= max_iters

\* The condition of the sweep loop.
SweepCond == k < max_iters

Sweep ==
  /\ pc = "sweep"
  /\ SweepCond
  /\ nset' = [h \in DOMAIN nset |->
                IF h \in Registered THEN [nset[h] EXCEPT !.Q = SweepQ(h.lev, @)]
                ELSE nset[h]]
  /\ trace' = Append(trace, Ev("sweep", k, SweepFlag(k)))
  /\ k' = k + 1
  /\ UNCHANGED <<Config, xfer, rebuilt, dt_level, time, tlevel, finest_level,
                 layout, Unew, level_steps, level_count, sweepers, mg, pc,
                 call, i, lev_top, lev, st, stale, entry>>

SweepExit ==
  /\ pc = "sweep"
  /\ ~SweepCond
  /\ pc' = "final"
  /\ lev' = 0
  /\ st' = 1
  /\ UNCHANGED <<Config, xfer, rebuilt, dt_level, time, tlevel, finest_level,
                 layout, Unew, level_steps, level_count, sweepers, mg, nset,
                 call, i, lev_top, k, trace, stale, entry>>

\* Mutant: the final node is taken at the base level's node count.
Uend_BaseCount(l) == nset[MgSweeper(l)].Q[nnodes0 - 1]

\* Copy-back: the node of level l's node set that is copied to new data.
Uend(l) == LET ns == nset[MgSweeper(l)] IN ns.Q[ns.nnodes - 1]

Final ==
  /\ pc = "final"
  /\ lev <= finest_level
  /\ HasSweeper(lev)
  /\ Unew' = [Unew EXCEPT ![lev][st] = Uend(lev)]
  /\ trace' = Append(trace, Ev("copyback", lev, st))
  /\ lev' = NextLevSt[1]
  /\ st' = NextLevSt[2]
  /\ UNCHANGED <<Config, xfer, rebuilt, dt_level, time, tlevel, finest_level,
                 layout, level_steps, level_count, sweepers, mg, nset, pc,
                 call, i, lev_top, k, stale, entry>>

\* The levels whose counters a Step of level 0 increments.
Counted == {0}

FinalExit ==
  /\ pc = "final"
  /\ lev > finest_level
  /\ level_steps' = [l \in Levels |-> IF l \in Counted THEN level_steps[l] + 1
                                      ELSE level_steps[l]]
  /\ level_count' = [l \in Levels |-> IF l \in Counted THEN level_count[l] + 1
                                      ELSE level_count[l]]
  /\ pc' = "ret"
  /\ UNCHANGED <<Config, xfer, rebuilt, dt_level, time, tlevel, finest_level,
                 layout, Unew, sweepers, mg, nset, call, i, lev_top, lev, st,
                 k, trace, stale, entry>>

\* ------------------------------------------------------ public regrid

Regrid ==
  /\ pc = "Idle"
  /\ \E lbase \in 0..finest_level : \E initial \in BOOLEAN :
     \E o \in RegridOutcomes(lbase) :
       Install(regrid([S EXCEPT !.trace = <<Ev("regrid", lbase, IF initial THEN 1 ELSE 0)>>],
                      lbase, o.nf, o.nl))
  /\ pc' = "ret"
  /\ call' = "regrid"
  /\ UNCHANGED <<Config, xfer, time, level_steps, i, lev_top, lev, st, k,
                 entry>>

\* The running operation returns to the driver.
Return ==
  /\ pc = "ret"
  /\ pc' = "Idle"
  /\ call' = "none"
  /\ trace' = <<>>
  /\ entry' = NoEntry
  /\ i' = 0 /\ lev_top' = 0 /\ lev' = 0 /\ st' = 0 /\ k' = 0
  /\ time' = 0
  /\ UNCHANGED <<Config, xfer, rebuilt, dt_level, tlevel, finest_level,
                 layout, Unew, level_steps, level_count, sweepers, mg, nset,
                 stale>>

Next ==
  \/ Construct
  \/ StepEntry
  \/ RegridLoop
  \/ RegridLoopExit
  \/ Seed
  \/ SeedExit
  \/ SetTimes
  \/ Spread
  \/ Sweep
  \/ SweepExit
  \/ Final
  \/ FinalExit
  \/ Regrid
  \/ Return

Spec == Init /\ [][Next]_vars

\* -------------------------------------------------- transfer operators

\* mlsdc_amr_restrict and mlsdc_amr_interpolate are callbacks the step
\* library calls with two MultiFabs (F fine, G coarse), the sdc_state and the
\* two levels.  They touch nothing of the controller, so they are followed
\* statement by statement in a specification of their own, XferSpec, whose
\* inputs are drawn at each call.
\*
\* A MultiFab is a function from its patches to patch data; a patch datum
\* says what its cells hold and whether its boundary cells were filled.  The
\* coarse MultiFab UG is one such datum.

Kinds == {"SDC_SOLUTION", "SDC_INTEGRAL", "SDC_TAU"}

Fab(d, b) == [data |-> d, bc |-> b]

\* MultiFab::contains_nan
contains_nan(U) == \E p \in DOMAIN U : U[p].data = "NaN"

XLog(x, e) == [x EXCEPT !.log = Append(@, e)]

\* fill_boundary(U, state->t, mode) on a whole MultiFab
fill_boundary(U) == [p \in DOMAIN U |-> [U[p] EXCEPT !.bc = TRUE]]

\* The arguments of a call: the kind of the transferred state, the build
\* (NDEBUG undefined or not), the patches of UF and those local to this
\* process.
XferArgs(op, kind, debug, n, loc) ==
  [NoXfer EXCEPT !.op = op, !.kind = kind, !.debug = debug, !.nfab = n,
                 !.local = loc,
                 !.UF = [p \in 1..n |-> Fab(<<"F", p>>, FALSE)],
                 !.UG = Fab("G", FALSE)]

\* The controller's variables, which a transfer operator leaves alone.
ctlvars == <<max_level, max_iters, ndesc, blocking_factor, finest_level,
             layout, Unew, level_steps, level_count, dt_level, tlevel, time,
             sweepers, mg, nset, pc, call, i, lev_top, lev, st, k, trace,
             stale, rebuilt, entry>>

\* ---- mlsdc_amr_restrict

\* Mutant: the boundary is filled whatever the state's kind is.
FillsBoundary_Always(kind) == TRUE

\* The condition of both boundary fills of mlsdc_amr_restrict.
FillsBoundary(kind) == kind = "SDC_SOLUTION"

\* levelG.avgDown(UG, UF): the coarse cells under the fine patches take the
\* average of what the fine patches hold now.
avgDown(UG, UF) == [UG EXCEPT !.data = <<"avgDown", UF>>]

CallRestrict ==
  /\ xfer.op = "none"
  /\ \E kind \in Kinds : \E debug \in BOOLEAN : \E n \in 0..MaxFabs :
     \E loc \in SUBSET (1..n) :
       xfer' = [XferArgs("restrict", kind, debug, n, loc) EXCEPT !.pc = "fillF"]
  /\ UNCHANGED ctlvars

RestrictFillFine ==
  /\ xfer.op = "restrict" /\ xfer.pc = "fillF"
  /\ xfer' = IF FillsBoundary(xfer.kind)
             THEN [XLog(xfer, Ev("fill_boundary", "UF", "use_FillBoundary"))
                     EXCEPT !.UF = fill_boundary(@), !.pc = "avgDown"]
             ELSE [xfer EXCEPT !.pc = "avgDown"]
  /\ UNCHANGED ctlvars

RestrictAvgDown ==
  /\ xfer.op = "restrict" /\ xfer.pc = "avgDown"
  /\ xfer' = [XLog(xfer, Ev("avgDown", "UG", "UF"))
                EXCEPT !.UG = avgDown(@, xfer.UF), !.pc = "fillG"]
  /\ UNCHANGED ctlvars

RestrictFillCoarse ==
  /\ xfer.op = "restrict" /\ xfer.pc = "fillG"
  /\ xfer' = IF FillsBoundary(xfer.kind)
             THEN [XLog(xfer, Ev("fill_boundary", "UG", "use_FillBoundary"))
                     EXCEPT !.UG.bc = TRUE, !.pc = "done"]
             ELSE [xfer EXCEPT !.pc = "done"]
  /\ UNCHANGED ctlvars

\* ---- mlsdc_amr_interpolate

\* MultiFab UC(crseba, ncomp, 0): one coarse patch per patch of UF, holding
\* whatever the allocation left there; a debug build sets UC and all of UF
\* to NaN.
InterpShadow(x) ==
  [x EXCEPT !.UC = [p \in 1..x.nfab |->
                      Fab(IF x.debug THEN "NaN" ELSE "junk", FALSE)],
            !.UF = IF x.debug THEN [p \in 1..x.nfab |-> Fab("NaN", FALSE)]
                   ELSE @]

\* UC.copy(UG): every patch of UC takes the coarse data under it.
copy(UC, UG) ==
  [p \in DOMAIN UC |-> [UC[p] EXCEPT !.data = <<"copy", UG.data, p>>]]

\* Mutant: every fine patch is interpolated from the first shadow patch.
ShadowPatch_First(x, p) == x.UC[1]

\* The shadow patch fine patch p is interpolated from: UC[mfi].
ShadowPatch(x, p) == x.UC[p]

\* map.interp(UC[mfi], ..., UF[mfi], ...): the cells of the fine patch,
\* ghost cells included, take values interpolated from the coarse patch.
interp(C) == Fab(<<"interp", C>>, FALSE)

CallInterpolate ==
  /\ xfer.op = "none"
  /\ \E kind \in Kinds : \E debug \in BOOLEAN : \E n \in 0..MaxFabs :
     \E loc \in SUBSET (1..n) :
       xfer' = [InterpShadow(XferArgs("interpolate", kind, debug, n, loc))
                  EXCEPT !.pc = "copy"]
  /\ UNCHANGED ctlvars

InterpCopy ==
  /\ xfer.op = "interpolate" /\ xfer.pc = "copy"
  /\ xfer' = [XLog(xfer, Ev("copy", "UC", "UG"))
                EXCEPT !.UC = copy(@, xfer.UG), !.pc = "fillC"]
  /\ UNCHANGED ctlvars

\* The boundary fill of UC and the assertion after it; the loop starts at
\* the first local patch.
InterpFillShadow ==
  /\ xfer.op = "interpolate" /\ xfer.pc = "fillC"
  /\ LET x == [XLog(xfer, Ev("fill_boundary", "UC", "set_PhysBoundary"))
                 EXCEPT !.UC = fill_boundary(@)]
     IN xfer' = IF x.debug /\ contains_nan(x.UC)
                THEN [x EXCEPT !.pc = "aborted"]
                ELSE [x EXCEPT !.pc = "loop", !.todo = x.local]
  /\ UNCHANGED ctlvars

\* One iteration of the MFIter loop: the next local patch, in index order.
InterpPatch ==
  /\ xfer.op = "interpolate" /\ xfer.pc = "loop"
  /\ xfer.todo # {}
  /\ LET p == CHOOSE q \in xfer.todo : \A r \in xfer.todo : q <= r
         C == ShadowPatch(xfer, p)
     IN xfer' = [XLog(xfer, Ev("interp", p, C))
                   EXCEPT !.UF[p] = interp(C), !.todo = @ \ {p}]
  /\ UNCHANGED ctlvars

\* After the loop: the boundary fill of UF and the assertion after it.
InterpFillFine ==
  /\ xfer.op = "interpolate" /\ xfer.pc = "loop"
  /\ xfer.todo = {}
  /\ LET x == [XLog(xfer, Ev("fill_boundary", "UF", "set_PhysBoundary"))
                 EXCEPT !.UF = fill_boundary(@)]
     IN xfer' = IF x.debug /\ \E p \in x.local : x.UF[p].data = "NaN"
                THEN [x EXCEPT !.pc = "aborted"]
                ELSE [x EXCEPT !.pc = "done"]
  /\ UNCHANGED ctlvars

\* The operator returns to the step library.
XferReturn ==
  /\ xfer.pc = "done"
  /\ xfer' = NoXfer
  /\ UNCHANGED ctlvars

\* The controller the callbacks are registered with: two levels, in a sweep.
XferInit ==
  /\ max_level = 1
  /\ max_iters = 1
  /\ ndesc = 1
  /\ blocking_factor = [l \in 0..1 |-> 4]
  /\ finest_level = 1
  /\ layout = 0
  /\ Unew = [l \in 0..1 |-> [f \in 1..1 |-> Val("U", l, f)]]
  /\ level_steps = [l \in 0..1 |-> 0]
  /\ level_count = [l \in 0..1 |-> 0]
  /\ dt_level = StableDt
  /\ tlevel = [l \in 0..1 |-> [f \in 1..1 |-> NoTime]]
  /\ time = 0
  /\ LET s == rebuild_mlsdc([finest_level |-> 1, layout |-> 0, Unew |-> <<>>,
                             level_count |-> <<>>,
                             sweepers |-> [l \in 0..1 |-> NULL],
                             mg |-> [nlevels |-> 0, sweepers |-> <<>>],
                             nset |-> <<>>, trace |-> <<>>, stale |-> TRUE,
                             rebuilt |-> FALSE])
     IN /\ sweepers = s.sweepers
        /\ mg = s.mg
        /\ nset = s.nset
        /\ stale = s.stale
        /\ rebuilt = s.rebuilt
  /\ pc = "sweep"
  /\ call = "timeStep"
  /\ i = 1 /\ lev_top = 0 /\ lev = 2 /\ st = 1 /\ k = 0
  /\ trace = <<>>
  /\ entry = NoEntry
  /\ xfer = NoXfer

XferNext ==
  \/ CallRestrict
  \/ RestrictFillFine
  \/ RestrictAvgDown
  \/ RestrictFillCoarse
  \/ CallInterpolate
  \/ InterpCopy
  \/ InterpFillShadow
  \/ InterpPatch
  \/ InterpFillFine
  \/ XferReturn

XferSpec == XferInit /\ [][XferNext]_vars

\* ------------------------------------------------------------ properties

InStep     == call = "timeStep"
LoopEnded  == InStep /\ pc = "regrid" /\ i > lev_top
AfterLoop  == InStep /\ pc \in {"seed", "settimes", "spread", "sweep", "final", "ret"}
StepDone   == InStep /\ pc = "ret"

IsRebuild(e)   == e.ev = "rebuild"
IsAmrRegrid(e) == e.ev = "Amr::regrid"
IsDue(e)       == e.ev = "okToRegrid" /\ e.b = 1
IsQuery(e)     == e.ev = "okToRegrid"
IsChange(e)    == e.ev = "Amr::regrid" /\ e.b = 1
IsSeed(e)      == e.ev = "seed"
IsSpread(e)    == e.ev = "spread"
IsSweep(e)     == e.ev = "sweep"
IsCopyBack(e)  == e.ev = "copyback"

NRebuilds == Len(SelectSeq(trace, IsRebuild))
NDue      == Len(SelectSeq(trace, IsDue))

\* C1: whenever a Step has finished its regrid loop (it is about to seed, or
\* is in a later phase), every change of the mesh shape so far, in this Step
\* or in an earlier Regrid, and the construction of the hierarchy itself,
\* has been followed by a rebuild: the shape is not newer than the sweepers.
C1_RebuildBeforeSeeding == (LoopEnded \/ AfterLoop) => ~stale

\* C1 witness: a Step's regrid loop has ended, a regrid of this Step changed
\* the mesh shape, and the sweepers have been rebuilt since.
C1_Witness ==
  /\ LoopEnded
  /\ Len(SelectSeq(trace, IsChange)) > 0
  /\ ~stale

\* C2 as stated: a Step that leaves the mesh shape as it found it performs
\* no rebuild.
C2_NoRebuildWithoutShapeChange ==
  (LoopEnded /\ finest_level = entry.finest /\ layout = entry.layout)
    => NRebuilds = 0

\* C2 amended: during the regrid loop a Step has rebuilt once if sweepers[0]
\* was NULL at entry, plus once for every level reported due for regridding,
\* whatever the regrid did to the shape; after the loop it neither regrids
\* nor rebuilds.
C2_RebuildPerRegrid ==
  /\ (InStep /\ pc = "regrid") =>
        NRebuilds = (IF entry.lazy THEN 1 ELSE 0) + NDue
  /\ AfterLoop =>
        /\ NRebuilds = 0
        /\ Len(SelectSeq(trace, IsAmrRegrid)) = 0

\* C2 witness: the regrid loop of a Step that found sweepers at entry has
\* ended, a level was queried, none was due, and nothing was rebuilt.
C2_Witness ==
  /\ LoopEnded
  /\ ~entry.lazy
  /\ Len(SelectSeq(trace, IsQuery)) > 0
  /\ NDue = 0
  /\ NRebuilds = 0

\* C3 as stated: when a Step returns, the step counter and the sub-step
\* counter of every level 0..finest_level are one more than they were after
\* the regrid loop.
C3_AllLevelsCounted ==
  StepDone =>
    \A l \in 0..finest_level :
      /\ level_steps[l] = entry.steps[l] + 1
      /\ level_count[l] = entry.count[l] + 1

\* The phase an event of a Step belongs to.
Rank(e) ==
  CASE e.ev \in {"okToRegrid", "Amr::regrid", "rebuild", "computeNewDt"} -> 0
    [] e.ev = "seed"         -> 1
    [] e.ev = "setTimeLevel" -> 2
    [] e.ev = "spread"       -> 3
    [] e.ev = "sweep"        -> 4
    [] e.ev = "copyback"     -> 5

LevelStates == {<<l, f>> : l \in 0..finest_level, f \in 1..ndesc}
Written(Is(_)) == {<<trace[n].a, trace[n].b>> : n \in {m \in 1..Len(trace) : Is(trace[m])}}
NSpreads == Len(SelectSeq(trace, IsSpread))
NSweeps  == Len(SelectSeq(trace, IsSweep))

\* C4: the calls of a Step come in the order regrid loop, seeding, time
\* levels, spread, sweeps, copy-back: nothing is seeded while the regrid loop
\* runs, spread is called at most once and only when every level and state
\* has been seeded, a sweep only after the spread, a copy-back only after all
\* max_iters sweeps, and a Step that returns has done all of them.
C4_PhaseOrder ==
  InStep =>
    /\ \A a, b \in 1..Len(trace) : a < b => Rank(trace[a]) <= Rank(trace[b])
    /\ pc = "regrid" => \A a \in 1..Len(trace) : Rank(trace[a]) = 0
    /\ NSpreads <= 1
    /\ NSpreads = 1 => Written(IsSeed) = LevelStates
    /\ NSweeps > 0 => NSpreads = 1
    /\ Written(IsCopyBack) # {} => (NSpreads = 1 /\ NSweeps = max_iters)
    /\ pc = "ret" => (NSpreads = 1 /\ Written(IsCopyBack) = LevelStates)

\* C4 witness: a Step on two levels with two sweeps is about to return.
C4_Witness ==
  /\ StepDone
  /\ finest_level >= 1
  /\ max_iters >= 2
  /\ NSweeps = max_iters

\* C5: a Step never makes more than max_iters sweeps, its sweeps are numbered
\* 0, 1, ... in order, the last-sweep flag is set on sweep max_iters-1 and on
\* no other, and once the sweep loop is over exactly max_iters sweeps were
\* made (none, and none flagged, when max_iters is 0).
C5_ExactlyMaxItersSweeps ==
  InStep =>
    LET sw == SelectSeq(trace, IsSweep)
    IN /\ Len(sw) <= max_iters
       /\ \A n \in 1..Len(sw) :
            /\ sw[n].a = n - 1
            /\ (sw[n].b = 1) <=> (n = max_iters)
       /\ pc \in {"final", "ret"} => Len(sw) = max_iters

\* C5 witness: the sweep loop of a Step with max_iters = 2 is over, and the
\* second sweep carried the flag.
C5_Witness ==
  /\ InStep
  /\ pc = "final"
  /\ max_iters = 2
  /\ NSweeps = 2
  /\ SelectSeq(trace, IsSweep)[2].b = 1

\* Q[0] of the node set the orchestrator holds for level l.
Q0(l) == nset[mg.sweepers[l + 1]].Q[0]

\* C6 as stated: after the seeding loop, Q[0] of every level equals each
\* state field the mesh hierarchy held for that level when the Step was
\* entered.
C6_SeedCopiesEveryField ==
  (InStep /\ pc = "settimes") =>
    \A l \in 0..finest_level : \A f \in 1..ndesc :
      /\ l <= entry.finest
      /\ Q0(l) = entry.Unew[l][f]

\* C7: when a Step returns, every state field of every level's new data
\* equals the last node of that level's node set, at the node set's own
\* node count.
C7_CopyBackOfLastNode ==
  StepDone =>
    \A l \in 0..finest_level : \A f \in 1..ndesc :
      LET ns == nset[mg.sweepers[l + 1]]
      IN Unew[l][f] = ns.Q[ns.nnodes - 1]

\* C7 witness: a Step with at least one sweep, two levels and two state
\* fields is about to return.
C7_Witness ==
  /\ StepDone
  /\ finest_level >= 1
  /\ max_iters >= 1
  /\ ndesc >= 2
  /\ Unew[1][1].tag = "S"

\* rebuild_mlsdc has just returned: it is the last call of the running
\* operation, or only the step sizes were recomputed since.
AfterRebuild ==
  /\ Len(trace) > 0
  /\ \/ trace[Len(trace)].ev = "rebuild"
     \/ /\ Len(trace) > 1
        /\ trace[Len(trace)].ev = "computeNewDt"
        /\ trace[Len(trace) - 1].ev = "rebuild"

\* C8: when rebuild_mlsdc has returned, the sweeper table holds a live
\* sweeper for each level 0..finest_level and NULL for each level above, the
\* sweeper of level l has level l as context, the orchestrator has
\* finest_level+1 levels, the table's sweepers in level order, and the live
\* sweeper objects are exactly those of the table, each made by this rebuild.
C8_RebuildReplacesAll ==
  AfterRebuild =>
    /\ \A l \in Levels :
         IF l <= finest_level
         THEN /\ sweepers[l] # NULL
              /\ sweepers[l] \in DOMAIN nset
              /\ nset[sweepers[l]].ctx = l
              /\ nset[sweepers[l]].fresh
         ELSE sweepers[l] = NULL
    /\ \A l, m \in 0..finest_level : l # m => sweepers[l] # sweepers[m]
    /\ mg.nlevels = finest_level + 1
    /\ mg.sweepers = [n \in 1..(finest_level + 1) |-> sweepers[n - 1]]
    /\ DOMAIN nset = {sweepers[l] : l \in 0..finest_level}

\* C8 witness: a Step that found sweepers at entry has regridded to a
\* hierarchy with fewer levels than max_level + 1 and rebuilt.
C8_Witness ==
  /\ AfterRebuild
  /\ InStep
  /\ ~entry.lazy
  /\ finest_level < max_level
  /\ entry.finest = max_level

\* The structure of a sweeper hierarchy: the populated levels, their node
\* counts, the orchestrator's level count.
Structure(s) ==
  LET pop == {l \in Levels : s.sweepers[l] # NULL}
  IN [levels  |-> pop,
      nnodes  |-> [l \in pop |-> s.nset[s.sweepers[l]].nnodes],
      nlevels |-> s.mg.nlevels,
      nmg     |-> Len(s.mg.sweepers)]

\* C9: in every state, rebuilding twice gives the structure that rebuilding
\* once gives; and where rebuild_mlsdc has just returned, rebuilding again
\* leaves the structure as it is.
C9_RebuildIdempotent ==
  /\ Structure(rebuild_mlsdc(rebuild_mlsdc(S))) = Structure(rebuild_mlsdc(S))
  /\ AfterRebuild => Structure(rebuild_mlsdc(S)) = Structure(S)

\* C9 witness: rebuild_mlsdc has just returned with two levels populated.
C9_Witness ==
  /\ AfterRebuild
  /\ Structure(S).levels = {0, 1}
  /\ Structure(S).nlevels = 2

\* C10: a Regrid call that returns has called the mesh provider's regrid with
\* its base level and then rebuild_mlsdc, once each and in this order; and in
\* a Step every regrid of the mesh provider is followed at once by a rebuild.
C10_RegridThenOneRebuild ==
  /\ (call = "regrid" /\ pc = "ret") =>
        /\ Len(trace) = 3
        /\ trace[1].ev = "regrid"
        /\ trace[2].ev = "Amr::regrid" /\ trace[2].a = trace[1].a
        /\ trace[3].ev = "rebuild"
  /\ InStep =>
        \A n \in 1..Len(trace) :
          /\ IsAmrRegrid(trace[n]) => (n < Len(trace) /\ IsRebuild(trace[n + 1]))
          /\ (IsRebuild(trace[n]) /\ n > 1) => IsAmrRegrid(trace[n - 1])
          /\ IsDue(trace[n]) => (n < Len(trace) /\ IsAmrRegrid(trace[n + 1]))

\* C10 witness: a Regrid call with is_initial set that left the mesh shape
\* unchanged is about to return.
C10_Witness ==
  /\ call = "regrid"
  /\ pc = "ret"
  /\ trace[1].b = 1
  /\ trace[2].b = 0

\* C11: every live sweeper of level k has 1 + 2 * 2^k nodes, and as many node
\* slots: 3 on level 0, 5 on level 1, 9 on level 2, whatever the grids, the
\* hierarchy depth or the configuration are.
C11_NodeCount ==
  \A h \in DOMAIN nset :
    /\ h.lev \in Levels
    /\ nset[h].nnodes = 1 + 2 * 2^(h.lev)
    /\ h.lev = 0 => nset[h].nnodes = 3
    /\ h.lev = 1 => nset[h].nnodes = 5
    /\ DOMAIN nset[h].Q = 0..(nset[h].nnodes - 1)

\* C11 witness: sweepers of levels 0 and 1 are live, with 3 and 5 nodes, on
\* grids other than the first.
C11_Witness ==
  /\ finest_level >= 1
  /\ layout = 1
  /\ sweepers[0] \in DOMAIN nset /\ nset[sweepers[0]].nnodes = 3
  /\ sweepers[1] \in DOMAIN nset /\ nset[sweepers[1]].nnodes = 5

\* C12: the constructor ends in an abort exactly when max_level > 0 and some
\* level 0..max_level has a blocking factor below 4 (never when max_level is
\* 0); an aborted controller has made no call, built no sweeper and taken no
\* step, and a controller handed to the driver passed the check.
C12_AbortIffBadBlockingFactor ==
  LET bad == max_level > 0 /\ \E l \in 0..max_level : blocking_factor[l] < 4
  IN /\ pc = "aborted" => bad
     /\ pc \notin {"ctor", "aborted"} => ~bad
     /\ max_level = 0 => pc # "aborted"
     /\ pc \in {"ctor", "aborted"} =>
          /\ call = "none" /\ trace = <<>>
          /\ nset = <<>> /\ mg.nlevels = 0
          /\ \A l \in Levels : sweepers[l] = NULL /\ level_steps[l] = 0

\* C12 witness: construction with max_level = 1 and blocking factor 2 on
\* level 1 only has aborted.
C12_Witness ==
  /\ pc = "aborted"
  /\ max_level = 1
  /\ blocking_factor[0] = 4
  /\ blocking_factor[1] = 2

\* The calls a Restrict of a state of the given kind makes, in order.
RestrictCalls(kind) ==
  IF kind = "SDC_SOLUTION"
  THEN <<Ev("fill_boundary", "UF", "use_FillBoundary"),
         Ev("avgDown", "UG", "UF"),
         Ev("fill_boundary", "UG", "use_FillBoundary")>>
  ELSE <<Ev("avgDown", "UG", "UF")>>

IsAvgDown(e)  == e.ev = "avgDown"
IsFill(e)     == e.ev = "fill_boundary"

\* C13: the calls a running Restrict has made are the first ones of: fill
\* the fine field, average down, fill the coarse field, when the state is a
\* solution, and of: average down, when it is anything else; a Restrict that
\* returns has made all of them, so it averaged down exactly once, and only
\* for a solution any boundary was filled (the fine field's before the
\* average was taken, the coarse field's after).
C13_RestrictSequence ==
  xfer.op = "restrict" =>
    LET want == RestrictCalls(xfer.kind)
    IN /\ Len(xfer.log) <= Len(want)
       /\ xfer.log = SubSeq(want, 1, Len(xfer.log))
       /\ xfer.pc = "done" =>
            /\ xfer.log = want
            /\ Len(SelectSeq(xfer.log, IsAvgDown)) = 1
            /\ xfer.kind # "SDC_SOLUTION" =>
                 /\ Len(SelectSeq(xfer.log, IsFill)) = 0
                 /\ ~xfer.UG.bc
                 /\ \A p \in 1..xfer.nfab : ~xfer.UF[p].bc
            /\ xfer.kind = "SDC_SOLUTION" =>
                 /\ xfer.UG.bc
                 /\ \A p \in 1..xfer.nfab : xfer.UF[p].bc
            /\ xfer.UG.data = <<"avgDown", xfer.UF>>

\* C13 witness: a Restrict of a correction term (an integral) over two fine
\* patches is about to return.
C13_Witness ==
  /\ xfer.op = "restrict"
  /\ xfer.pc = "done"
  /\ xfer.kind = "SDC_INTEGRAL"
  /\ xfer.nfab = 2
  /\ Len(xfer.log) = 1

\* C18: every per-patch interpolation of a running Interpolate comes after
\* the copy into the shadow field and the boundary fill of the shadow field
\* (in this order, first of all calls), reads the shadow patch of the fine
\* patch's own index, holding the coarse data under it with its boundary
\* filled, and writes a local fine patch no earlier interpolation wrote; the
\* boundary fill of the fine field is the last call, made once every local
\* patch was interpolated; an Interpolate that returns has done all of this;
\* and the coarse input field is as it was passed.
C18_InterpolateOrder ==
  xfer.op = "interpolate" =>
    LET log     == xfer.log
        interps == {n \in 1..Len(log) : log[n].ev = "interp"}
        patched == {log[n].a : n \in interps}
        fillUF(e) == /\ e.ev = "fill_boundary" /\ e.a = "UF"
                     /\ e.b = "set_PhysBoundary"
    IN /\ Len(log) >= 1 => log[1] = Ev("copy", "UC", "UG")
       /\ Len(log) >= 2 => log[2] = Ev("fill_boundary", "UC", "set_PhysBoundary")
       /\ \A n \in interps :
            /\ n >= 3
            /\ log[n].a \in xfer.local
            /\ log[n].b = Fab(<<"copy", "G", log[n].a>>, TRUE)
            /\ log[n].b = xfer.UC[log[n].a]
            /\ \A m \in interps : m # n => log[m].a # log[n].a
       /\ \A n \in 1..Len(log) :
            fillUF(log[n]) => (n = Len(log) /\ n >= 3 /\ patched = xfer.local)
       /\ xfer.pc = "done" =>
            /\ fillUF(log[Len(log)])
            /\ Len(log) = 3 + Cardinality(xfer.local)
            /\ \A p \in xfer.local :
                 xfer.UF[p] = Fab(<<"interp", xfer.UC[p]>>, TRUE)
       /\ xfer.UG = Fab("G", FALSE)

\* C18 witness: an Interpolate over two fine patches, both local, in a debug
\* build, is about to return.
C18_Witness ==
  /\ xfer.op = "interpolate"
  /\ xfer.pc = "done"
  /\ xfer.debug
  /\ xfer.nfab = 2
  /\ xfer.local = {1, 2}
  /\ xfer.UF[2].data = <<"interp", xfer.UC[2]>>

\* The levels a Step has queried so far, in the order of the queries.
Queried == SelectSeq(trace, IsQuery)

\* C14 as stated: the level about to be queried is within
\* base..min(finest_level, max_level-1) for the current finest_level, and
\* when the regrid loop ends every level of that range, for the finest_level
\* the regrids left, has been queried.
C14_EveryLevelInRangeQueried ==
  /\ (InStep /\ pc = "regrid" /\ i <= lev_top) =>
        (0 <= i /\ i <= Min(finest_level, max_level - 1))
  /\ LoopEnded =>
        \A l \in 0..Min(finest_level, max_level - 1) :
          \E n \in 1..Len(Queried) : Queried[n].a = l

\* C14 amended: during the regrid loop the levels queried so far are
\* 0, 1, ..., i-1 in this order, and the loop bound never exceeds
\* min(finest_level, max_level-1) for the current finest_level, so every
\* level queried is in that range at its query; an iteration re-evaluates
\* the bound, to min(finest_level, max_level-1), exactly when it lowered
\* finest_level, and otherwise (finest_level kept or raised) leaves it.
C14_BoundLoweredOnly ==
  /\ []((InStep /\ pc = "regrid") =>
          /\ lev_top <= Min(finest_level, max_level - 1)
          /\ Len(Queried) = i
          /\ \A n \in 1..Len(Queried) : Queried[n].a = n - 1)
  /\ [][(InStep /\ pc = "regrid" /\ i' = i + 1) =>
          /\ i <= Min(finest_level, max_level - 1)
          /\ finest_level' < finest_level =>
                lev_top' = Min(finest_level', max_level - 1)
          /\ finest_level' >= finest_level => lev_top' = lev_top]_vars

\* C14 witness: the regrid loop of a Step has ended after a regrid of level
\* 0 raised finest_level from 0 to 2: level 1 is within the current range
\* and was not queried.
C14_Witness ==
  /\ LoopEnded
  /\ max_level = 2
  /\ entry.finest = 0
  /\ finest_level = 2
  /\ lev_top = 0
  /\ Len(Queried) = 1

\* C15: an iteration of the regrid loop that finds level i due calls the
\* mesh provider's regrid, then recomputes the step sizes for the levels up
\* to the new finest_level, and leaves level_count at 0 for every level from
\* i to the new finest_level and as it was for every other level; an
\* iteration that finds level i not due recomputes nothing and leaves every
\* counter and step size as it was.  The same holds of an iteration started
\* with counters that are all non-zero (as a restart leaves them).
C15_RegridResetsCounters ==
  /\ []((InStep /\ pc = "regrid" /\ i <= lev_top) =>
          \A o \in RegridOutcomes(i) :
            LET s == [S EXCEPT !.level_count = [l \in Levels |-> l + 1]]
            IN /\ RegridIter(s, FALSE, o).level_count = s.level_count
               /\ \A l \in Levels :
                    RegridIter(s, TRUE, o).level_count[l] =
                      IF i <= l /\ l <= o.nf THEN 0 ELSE l + 1)
  /\ [][(InStep /\ pc = "regrid" /\ i' = i + 1) =>
       LET n0  == Len(trace)
           due == trace'[n0 + 1].ev = "okToRegrid" /\ trace'[n0 + 1].b = 1
       IN /\ trace'[n0 + 1].a = i
          /\ due =>
               /\ Len(trace') = n0 + 4
               /\ trace'[n0 + 2].ev = "Amr::regrid" /\ trace'[n0 + 2].a = i
               /\ trace'[n0 + 4] = Ev("computeNewDt", finest_level', -1)
               /\ \A l \in Levels :
                    level_count'[l] = IF i <= l /\ l <= finest_level'
                                      THEN 0 ELSE level_count[l]
          /\ ~due =>
               /\ Len(trace') = n0 + 1
               /\ level_count' = level_count
               /\ dt_level' = dt_level]_vars

\* C15 witness: in a Step after the first, level 0 was not due and level 1
\* was regridded: the counter of level 0 kept its 1, the step sizes were
\* recomputed last.
C15_Witness ==
  /\ InStep
  /\ pc = "regrid"
  /\ i = 2
  /\ level_count[0] = 1
  /\ level_count[1] = 0
  /\ Len(trace) = 5
  /\ trace[1] = Ev("okToRegrid", 0, 0)
  /\ trace[2] = Ev("okToRegrid", 1, 1)
  /\ trace[5].ev = "computeNewDt"

\* C16: from the end of a Step's regrid loop to its return, so at every
\* read of a node set (Q[0] when seeding, R[nnodes-2] after a sweep,
\* Q[nnodes-1] when copying back), the mesh shape is not newer than the
\* sweepers, the orchestrator has exactly the levels 0..finest_level, and its
\* entry for each of them is a live sweeper, the one the table holds, made by
\* the latest rebuild for this level and for the level's current grids, with
\* all its nodes allocated.
C16_SweepersCurrentAtReads ==
  AfterLoop =>
    /\ ~stale
    /\ mg.nlevels = finest_level + 1
    /\ Len(mg.sweepers) = finest_level + 1
    /\ \A l \in 0..finest_level :
         /\ mg.sweepers[l + 1] # NULL
         /\ mg.sweepers[l + 1] = sweepers[l]
         /\ mg.sweepers[l + 1] \in DOMAIN nset
         /\ LET ns == nset[mg.sweepers[l + 1]]
            IN /\ ns.fresh
               /\ ns.ctx = l
               /\ ns.encap = layout
               /\ ns.nnodes >= 2
               /\ DOMAIN ns.Q = 0..(ns.nnodes - 1)

\* C16 witness: a Step after the first, on three levels with grids other
\* than the first, has made a sweep and is about to make another or to copy
\* back.
C16_Witness ==
  /\ InStep
  /\ pc = "sweep"
  /\ k >= 1
  /\ level_steps[0] >= 1
  /\ finest_level = 2
  /\ layout = 1

\* C17: when a Step is about to call spread, and from then until it
\* returns, every state field of every level 0..finest_level has new time
\* time + dt_level[0] and old time time, for the time the Step was called
\* with: the same on every level, whatever the level's own step size is.
C17_TimeLevelsFromBaseDt ==
  (InStep /\ pc \in {"spread", "sweep", "final", "ret"}) =>
    \A l \in 0..finest_level : \A f \in 1..ndesc :
      /\ tlevel[l][f].new = time + dt_level[0]
      /\ tlevel[l][f].old = time
      /\ tlevel[l][f] = tlevel[0][1]

\* C17 witness: a Step called with a time after 0 is about to call spread;
\* level 1 has a step size of its own and two state fields.
C17_Witness ==
  /\ InStep
  /\ pc = "spread"
  /\ time > 0
  /\ finest_level >= 1
  /\ ndesc = 2
  /\ dt_level[1] # dt_level[0]
  /\ tlevel[1][2].new = time + dt_level[0]

\* C19: once a rebuild has completed, sweepers[0] is never NULL again; so a
\* Step rebuilds at its entry only when no rebuild has completed before,
\* which can happen once at most, and the first call a Step makes is a
\* rebuild exactly when it found sweepers[0] NULL; every later rebuild of a
\* Step comes right after a regrid of the mesh provider.
C19_LazyRebuildAtMostOnce ==
  /\ [](rebuilt => sweepers[0] # NULL)
  /\ []((InStep /\ pc = "regrid") =>
          /\ entry.lazy => (Len(trace) > 0 /\ IsRebuild(trace[1]))
          /\ \A n \in 1..Len(trace) :
               IsRebuild(trace[n]) =>
                 IF n = 1 THEN entry.lazy ELSE IsAmrRegrid(trace[n - 1]))
  /\ [][(pc = "Idle" /\ call' = "timeStep") =>
          /\ entry'.lazy <=> ~rebuilt
          /\ rebuilt']_vars

\* C19 witness: a Step after the first has been entered; it found
\* sweepers[0] set and has called nothing yet.
C19_Witness ==
  /\ InStep
  /\ pc = "regrid"
  /\ i = 0
  /\ level_steps[0] >= 1
  /\ rebuilt
  /\ ~entry.lazy
  /\ trace = <<>>

====
